---- MODULE Spec2Model ----
(***************************************************************************)
(* Homomorphisms of daddy (src/assign) applied to one path of a decision   *)
(* diagram.  A diagram is a set of paths and every homomorphism here       *)
(* distributes over the union of paths, so the model evaluates one path:   *)
(* a sequence of (variable, value) edges closed by a terminal.             *)
(***************************************************************************)
EXTENDS Integers, Sequences, FiniteSets, TLC

VARIABLES
  call,   \* the call that built the homomorphism (or the comparison made)
  input,  \* the path the homomorphism is applied to
  h,      \* the homomorphism being applied
  d,      \* the diagram h is applied to; at the end, the result
  stack,  \* the pending steps of the enclosing applications
  pc,     \* "eval", "ret", "done", "crashed"; "cmp", "compared"
  ub,     \* a vector was indexed outside its bounds
  res     \* the value operator== returned

vars == <<call, input, h, d, stack, pc, ub, res>>

\* ---------------------------------------------------------------- bounds
NVars == 3
MaxVal == 1

Vars == 0 .. (NVars - 1)
Vals == 0 .. MaxVal
Incs == {-1, 0, 10}
Muls == {0, 1, 2}
Augs == {0, 1}

\* ------------------------------------------------- diagrams (one path)
DDDone == [edges |-> <<>>, term |-> "one"]
DDDnull == [edges |-> <<>>, term |-> "null"]
DDDtop == [edges |-> <<>>, term |-> "top"]

\* GDDD(var, val, d): the node var -val-> d; an edge to null is null
GDDD(var, val, dd) ==
  IF dd = DDDnull THEN DDDnull
  ELSE [edges |-> <<(<<var, val>>)>> \o dd.edges, term |-> dd.term]

\* ------------------------------------------------------ homomorphisms
\* GHom(): the identity
GHomId == [type |-> "Identity"]
\* GHom(GDDD): the constant homomorphism
GHomConst(dd) == [type |-> "Constant", ddd |-> dd]
\* GHom(var, val, h): apply h, then put the edge var -val-> on top
GHomEdge(var, val, hh) == [type |-> "LeftConcat", var |-> var, val |-> val, h |-> hh]
\* h1 & h2: apply h2, then h1
GHomCompose(h1, h2) == [type |-> "Compose", left |-> h1, right |-> h2]

\* ------------------------------------------------ assign.cpp, _Assign*
AssignConst(vr, vl, ag) == [type |-> "_AssignConst", var |-> vr, val |-> vl, aug |-> ag]
AssignUp(vr, vl) == [type |-> "_AssignUp", var |-> vr, val |-> vl]
AssignDown(t, s, i, m) == [type |-> "_AssignDown", tgt |-> t, src |-> s, inc |-> i, mul |-> m]
Assign(t, s, a, i, m) ==
  [type |-> "_Assign", tgt |-> t, src |-> s, aug |-> a, inc |-> i, mul |-> m]

AssignConst_phiOne(self) == DDDone

\* the augmenting branch overwrites
AssignConst_phi_overwrite(self, vr, vl) ==
  IF vr # self.var THEN GHomEdge(vr, vl, self)
  ELSE GHomEdge(vr, self.val, GHomId)

AssignConst_phi(self, vr, vl) ==
  IF vr # self.var THEN GHomEdge(vr, vl, self)
  ELSE IF self.aug # 0 THEN GHomEdge(vr, vl + self.val, GHomId)
  ELSE GHomEdge(vr, self.val, GHomId)

AssignUp_phiOne(self) == DDDtop

\* the carried edge is put above the edge just met
AssignUp_phi_above(self, vr, vl) == GHomEdge(self.var, self.val, GHomEdge(vr, vl, GHomId))

AssignUp_phi(self, vr, vl) == GHomEdge(vr, vl, GHomEdge(self.var, self.val, GHomId))

\* the terminal accepts
AssignDown_phiOne_accept(self) == DDDone

AssignDown_phiOne(self) == DDDtop

\* the edge is put back in front of the sub-diagram and the same instance
\* is applied again
AssignDown_phi_again(self, vr, vl) ==
  IF vr = self.src
  THEN GHomEdge(self.tgt, self.mul * vl + self.inc, GHomEdge(vr, vl, GHomId))
  ELSE GHomCompose(self, GHomEdge(vr, vl, GHomId))

AssignDown_phi(self, vr, vl) ==
  IF vr = self.src
  THEN GHomEdge(self.tgt, self.mul * vl + self.inc, GHomEdge(vr, vl, GHomId))
  ELSE GHomCompose(AssignUp(vr, vl), self)

Assign_phiOne(self) == DDDone

\* the source's value is carried without the multiplier
Assign_phi_nomul(self, vr, vl) ==
  IF vr = self.tgt /\ vr = self.src
  THEN IF self.aug # 0
       THEN GHomEdge(vr, vl + self.mul * vl + self.inc, GHomId)
       ELSE GHomEdge(vr, self.mul * vl + self.inc, GHomId)
  ELSE IF vr = self.src
  THEN GHomEdge(vr, vl, AssignConst(self.tgt, vl + self.inc, self.aug))
  ELSE IF vr # self.tgt
  THEN GHomEdge(vr, vl, self)
  ELSE IF self.aug # 0
  THEN AssignDown(self.tgt, self.src, vl + self.inc, self.mul)
  ELSE AssignDown(self.tgt, self.src, self.inc, self.mul)

Assign_phi(self, vr, vl) ==
  IF vr = self.tgt /\ vr = self.src
  THEN IF self.aug # 0
       THEN GHomEdge(vr, vl + self.mul * vl + self.inc, GHomId)
       ELSE GHomEdge(vr, self.mul * vl + self.inc, GHomId)
  ELSE IF vr = self.src
  THEN GHomEdge(vr, vl, AssignConst(self.tgt, self.mul * vl + self.inc, self.aug))
  ELSE IF vr # self.tgt
  THEN GHomEdge(vr, vl, self)
  ELSE IF self.aug # 0
  THEN AssignDown(self.tgt, self.src, vl + self.inc, self.mul)
  ELSE AssignDown(self.tgt, self.src, self.inc, self.mul)

\* the identity shortcut does not look at aug
assignHom_noaug(tgt, src, aug, inc, mul) ==
  IF mul = 0 /\ inc = 0 THEN GHomId
  ELSE IF mul = 0 THEN AssignConst(tgt, inc, aug)
  ELSE Assign(tgt, src, aug, inc, mul)

assignHom(tgt, src, aug, inc, mul) ==
  IF mul = 0 /\ inc = 0 /\ aug # 0 THEN GHomId
  ELSE IF mul = 0 THEN AssignConst(tgt, inc, aug)
  ELSE Assign(tgt, src, aug, inc, mul)

\* ------------------------------------------ simple_linear.cpp, _LineOne*
LineOneConst(vr, vl, ag) == [type |-> "_LineOneConst", var |-> vr, val |-> vl, aug |-> ag]
LineOneUp(vr, vl) == [type |-> "_LineOneUp", var |-> vr, val |-> vl]
LineOneDown(t, s, i, m) == [type |-> "_LineOneDown", tgt |-> t, src |-> s, inc |-> i, mul |-> m]
LineOne(t, s, a, i, m) ==
  [type |-> "_LineOne", tgt |-> t, src |-> s, aug |-> a, inc |-> i, mul |-> m]

LineOneConst_phiOne(self) == DDDone

\* the constant is dropped at the first variable that is not the target
LineOneConst_phi_stop(self, vr, vl) ==
  IF vr # self.var THEN GHomEdge(vr, vl, GHomId)
  ELSE IF self.aug # 0 THEN GHomEdge(vr, vl + self.val, GHomId)
  ELSE GHomEdge(vr, self.val, GHomId)

LineOneConst_phi(self, vr, vl) ==
  IF vr # self.var THEN GHomEdge(vr, vl, self)
  ELSE IF self.aug # 0 THEN GHomEdge(vr, vl + self.val, GHomId)
  ELSE GHomEdge(vr, self.val, GHomId)

LineOneUp_phiOne(self) == DDDtop

LineOneUp_phi(self, vr, vl) == GHomEdge(vr, vl, GHomEdge(self.var, self.val, GHomId))

LineOneDown_phiOne(self) == DDDtop

LineOneDown_phi(self, vr, vl) ==
  IF vr = self.src
  THEN GHomEdge(self.tgt, self.mul * vl + self.inc, GHomEdge(vr, vl, GHomId))
  ELSE GHomCompose(LineOneUp(vr, vl), self)

LineOne_phiOne(self) == DDDone

\* the augmenting self-assignment forgets the old value
LineOne_phi_selfaug(self, vr, vl) ==
  IF vr = self.tgt /\ vr = self.src
  THEN GHomEdge(vr, self.mul * vl + self.inc, GHomId)
  ELSE IF vr = self.src
  THEN GHomEdge(vr, vl, LineOneConst(self.tgt, self.mul * vl + self.inc, self.aug))
  ELSE IF vr # self.tgt
  THEN GHomEdge(vr, vl, self)
  ELSE IF self.aug # 0
  THEN LineOneDown(self.tgt, self.src, vl + self.inc, self.mul)
  ELSE LineOneDown(self.tgt, self.src, self.inc, self.mul)

LineOne_phi(self, vr, vl) ==
  IF vr = self.tgt /\ vr = self.src
  THEN IF self.aug # 0
       THEN GHomEdge(vr, vl + self.mul * vl + self.inc, GHomId)
       ELSE GHomEdge(vr, self.mul * vl + self.inc, GHomId)
  ELSE IF vr = self.src
  THEN GHomEdge(vr, vl, LineOneConst(self.tgt, self.mul * vl + self.inc, self.aug))
  ELSE IF vr # self.tgt
  THEN GHomEdge(vr, vl, self)
  ELSE IF self.aug # 0
  THEN LineOneDown(self.tgt, self.src, vl + self.inc, self.mul)
  ELSE LineOneDown(self.tgt, self.src, self.inc, self.mul)

lineOneHom(tgt, src, aug, inc, mul) ==
  IF mul = 0 /\ inc = 0 /\ aug # 0 THEN GHomId
  ELSE IF mul = 0 THEN LineOneConst(tgt, inc, aug)
  ELSE LineOne(tgt, src, aug, inc, mul)

\* --------------------------------------- simple_linear.hh, _ActionHom
\* action.hh: condition_t, weightedsum_t, action_t
condition_t(op, value, coefs) == [op |-> op, value |-> value, coefs |-> coefs]
weightedsum_t(value, coefs) == [value |-> value, coefs |-> coefs]
action_t(cond, assign) == [cond |-> cond, assign |-> assign]

Comparators == {"EQ", "NEQ", "LT", "GT", "LEQ", "GEQ"}

ActionHom(a) == [type |-> "_ActionHom", act |-> a]

actionHom(act) == ActionHom(act)

\* coefs[vr]; a read past the end of the vector yields the unspecified value g
CoefRead(coefs, vr, g) == IF vr + 1 \in DOMAIN coefs THEN coefs[vr + 1] ELSE g

\* coefs[vr] = 0; a write past the end of the vector does not change the vector
CoefClear(coefs, vr) ==
  IF vr + 1 \in DOMAIN coefs THEN [coefs EXCEPT ![vr + 1] = 0] ELSE coefs

\* the loop "done": no nonzero coefficient is left
AllZero(coefs) == \A j \in DOMAIN coefs : coefs[j] = 0

\* the switch on cond.op: 0 op cond.value
IsTrue(op, value) ==
  CASE op = "EQ" -> 0 = value
    [] op = "NEQ" -> 0 # value
    [] op = "LT" -> 0 < value
    [] op = "GT" -> 0 > value
    [] op = "LEQ" -> 0 <= value
    [] op = "GEQ" -> 0 >= value
    [] OTHER -> FALSE

\* the edge's contribution is subtracted from the condition's value
CondStep_minus(c, vr, vl, g) ==
  condition_t(c.op, c.value - CoefRead(c.coefs, vr, g) * vl, CoefClear(c.coefs, vr))

\* one condition partially evaluated on the edge vr -vl->
CondStep(c, vr, vl, g) ==
  condition_t(c.op, c.value + CoefRead(c.coefs, vr, g) * vl, CoefClear(c.coefs, vr))

\* the edge's value is added without its coefficient
SumStep_nocoef(s, vr, vl, g) ==
  weightedsum_t(s.value + vl, CoefClear(s.coefs, vr))

\* the coefficient of the visited variable is not cleared
SumStep_noclear(s, vr, vl, g) ==
  weightedsum_t(s.value + CoefRead(s.coefs, vr, g) * vl, s.coefs)

\* one weighted sum partially evaluated on the edge vr -vl->
SumStep(s, vr, vl, g) ==
  weightedsum_t(s.value + CoefRead(s.coefs, vr, g) * vl, CoefClear(s.coefs, vr))

\* a condition found true stays in the list
RECURSIVE CondLoop_keeptrue(_, _, _, _)
CondLoop_keeptrue(cond, vr, vl, g) ==
  IF cond = <<>> THEN [pruned |-> FALSE, cond |-> <<>>]
  ELSE LET c == CondStep(Head(cond), vr, vl, g)
       IN IF AllZero(c.coefs) /\ ~IsTrue(c.op, c.value)
          THEN [pruned |-> TRUE, cond |-> <<>>]
          ELSE LET r == CondLoop_keeptrue(Tail(cond), vr, vl, g)
               IN [pruned |-> r.pruned,
                   cond |-> IF r.pruned THEN <<>> ELSE <<c>> \o r.cond]

\* the loop over act.cond: pruned as soon as a fully evaluated condition is
\* false, else the conditions that are not fully evaluated, in order
RECURSIVE CondLoop(_, _, _, _)
CondLoop(cond, vr, vl, g) ==
  IF cond = <<>> THEN [pruned |-> FALSE, cond |-> <<>>]
  ELSE LET c == CondStep(Head(cond), vr, vl, g)
       IN IF AllZero(c.coefs)
          THEN IF ~IsTrue(c.op, c.value)
               THEN [pruned |-> TRUE, cond |-> <<>>]
               ELSE CondLoop(Tail(cond), vr, vl, g)
          ELSE LET r == CondLoop(Tail(cond), vr, vl, g)
               IN [pruned |-> r.pruned,
                   cond |-> IF r.pruned THEN <<>> ELSE <<c>> \o r.cond]

\* the loop over act.assign
SumLoop(assign, vr, vl, g) ==
  [i \in DOMAIN assign |-> SumStep(assign[i], vr, vl, g)]

RECURSIVE ActionChain(_, _)
ActionChain(assign, i) ==
  IF i >= Len(assign) THEN DDDone
  ELSE GDDD(i, assign[i + 1].value, ActionChain(assign, i + 1))

ActionHom_phiOne(self) == ActionChain(self.act.assign, 0)

ActionHom_phi(self, vr, vl, g) ==
  LET r == CondLoop(self.act.cond, vr, vl, g)
  IN IF r.pruned THEN GHomConst(DDDnull)
     ELSE actionHom(action_t(r.cond, SumLoop(self.act.assign, vr, vl, g)))

\* some coefficient vector of the instance has no entry for variable vr
OutOfBounds(self, vr) ==
  /\ self.type = "_ActionHom"
  /\ \/ \E i \in DOMAIN self.act.cond : vr + 1 \notin DOMAIN self.act.cond[i].coefs
     \/ \E i \in DOMAIN self.act.assign : vr + 1 \notin DOMAIN self.act.assign[i].coefs

\* --------------------------------------------- assign.cpp, _Linear
LinearUp(vr, vl) == [type |-> "_LinearUp", var |-> vr, val |-> vl]

LinearUp_phiOne(self) == DDDtop

LinearUp_phi(self, vr, vl) == GHomEdge(vr, vl, GHomEdge(self.var, self.val, GHomId))

LinearDown(t, c, i) == [type |-> "_LinearDown", tgt |-> t, coef |-> c, inc |-> i]

LinearDown_phiOne(self) == GDDD(self.tgt, self.inc, DDDone)

LinearDown_phi(self, vr, vl) ==
  LET ni == vl * self.coef[vr + 1] + self.inc
  IN GHomCompose(LinearUp(vr, vl), LinearDown(self.tgt, self.coef, ni))

Linear(t, c, i) == [type |-> "_Linear", tgt |-> t, coef |-> c, inc |-> i]

Linear_phiOne(self) == DDDone

\* the target's own value is not counted
Linear_phi_skipown(self, vr, vl) ==
  LET ni == vl * self.coef[vr + 1] + self.inc
  IN IF vr = self.tgt THEN LinearDown(self.tgt, self.coef, self.inc)
     ELSE GHomEdge(vr, vl, Linear(self.tgt, self.coef, ni))

Linear_phi(self, vr, vl) ==
  LET ni == vl * self.coef[vr + 1] + self.inc
  IN IF vr = self.tgt THEN LinearDown(self.tgt, self.coef, ni)
     ELSE GHomEdge(vr, vl, Linear(self.tgt, self.coef, ni))

linearAssignHom(tgt, coef, inc) == Linear(tgt, coef, inc)

\* ------------------------------------------------------- operator==
AssignConst_eq(self, ps) == self.var = ps.var /\ self.val = ps.val /\ self.aug = ps.aug
AssignUp_eq(self, ps) == self.var = ps.var /\ self.val = ps.val
AssignDown_eq(self, ps) ==
  self.tgt = ps.tgt /\ self.src = ps.src /\ self.inc = ps.inc /\ self.mul = ps.mul
Assign_eq(self, ps) ==
  /\ self.tgt = ps.tgt /\ self.src = ps.src /\ self.aug = ps.aug
  /\ self.inc = ps.inc /\ self.mul = ps.mul
LineOneConst_eq(self, ps) == self.var = ps.var /\ self.val = ps.val /\ self.aug = ps.aug
LineOneUp_eq(self, ps) == self.var = ps.var /\ self.val = ps.val
LineOneDown_eq(self, ps) ==
  self.tgt = ps.tgt /\ self.src = ps.src /\ self.inc = ps.inc /\ self.mul = ps.mul
LineOne_eq(self, ps) ==
  /\ self.tgt = ps.tgt /\ self.src = ps.src /\ self.aug = ps.aug
  /\ self.inc = ps.inc /\ self.mul = ps.mul
Linear_eq(self, ps) == self.tgt = ps.tgt /\ self.inc = ps.inc /\ self.coef = ps.coef
LinearDown_eq(self, ps) == self.tgt = ps.tgt /\ self.inc = ps.inc /\ self.coef = ps.coef
LinearUp_eq(self, ps) == self.var = ps.var /\ self.val = ps.val

\* the loop over act.assign reads ps->act.assign[i] for every i below
\* act.assign.size(): past the end of ps->act.assign when ps has fewer terms
\* and no earlier term differs
ActionHom_eq_reads_past(self, ps) ==
  /\ Len(self.act.cond) = Len(ps.act.cond)
  /\ \A i \in DOMAIN self.act.cond : self.act.cond[i] = ps.act.cond[i]
  /\ Len(self.act.assign) > Len(ps.act.assign)
  /\ \A i \in DOMAIN ps.act.assign : self.act.assign[i] = ps.act.assign[i]

\* _ActionHom::operator== where every read is inside its vector
ActionHom_eq(self, ps) ==
  IF Len(self.act.cond) # Len(ps.act.cond) THEN FALSE
  ELSE IF \E i \in DOMAIN self.act.cond :
            \/ self.act.cond[i].op # ps.act.cond[i].op
            \/ self.act.cond[i].value # ps.act.cond[i].value
            \/ self.act.cond[i].coefs # ps.act.cond[i].coefs
  THEN FALSE
  ELSE IF \E i \in DOMAIN self.act.assign \cap DOMAIN ps.act.assign :
            \/ self.act.assign[i].value # ps.act.assign[i].value
            \/ self.act.assign[i].coefs # ps.act.assign[i].coefs
  THEN FALSE
  ELSE TRUE

\* StrongHom::operator== on two instances of the same class
eq(self, ps) ==
  CASE self.type = "_Assign" -> Assign_eq(self, ps)
    [] self.type = "_AssignConst" -> AssignConst_eq(self, ps)
    [] self.type = "_AssignDown" -> AssignDown_eq(self, ps)
    [] self.type = "_AssignUp" -> AssignUp_eq(self, ps)
    [] self.type = "_LineOne" -> LineOne_eq(self, ps)
    [] self.type = "_LineOneConst" -> LineOneConst_eq(self, ps)
    [] self.type = "_LineOneDown" -> LineOneDown_eq(self, ps)
    [] self.type = "_LineOneUp" -> LineOneUp_eq(self, ps)
    [] self.type = "_Linear" -> Linear_eq(self, ps)
    [] self.type = "_LinearDown" -> LinearDown_eq(self, ps)
    [] self.type = "_LinearUp" -> LinearUp_eq(self, ps)
    [] self.type = "_ActionHom" -> ActionHom_eq(self, ps)

\* ------------------------------------------------------------- hash
\* The arithmetic is size_t (int in the _Linear classes, converted on return);
\* on the instances hashed below every intermediate value lies in
\* 0 .. 2^31 - 1, where it is the arithmetic of the integers.
RECURSIVE _vector_int_hash(_, _)
_vector_int_hash(seed, vec) ==
  IF vec = <<>> THEN seed
  ELSE _vector_int_hash(seed * 31 + Head(vec), Tail(vec))

\* the enumerators of comparator, as (std::size_t)op
OpCode(op) ==
  CASE op = "EQ" -> 0 [] op = "NEQ" -> 1 [] op = "LT" -> 2
    [] op = "GT" -> 3 [] op = "LEQ" -> 4 [] op = "GEQ" -> 5

RECURSIVE CondHash(_, _)
CondHash(hv, cond) ==
  IF cond = <<>> THEN hv
  ELSE CondHash((_vector_int_hash(hv, Head(cond).coefs) * 31 + Head(cond).value) * 31
                  + OpCode(Head(cond).op),
                Tail(cond))

RECURSIVE AssignHash(_, _)
AssignHash(hv, assign) ==
  IF assign = <<>> THEN hv
  ELSE AssignHash((_vector_int_hash(hv, Head(assign).coefs) * 31 + Head(assign).value) * 31,
                  Tail(assign))

ActionHom_hash(self) == AssignHash(CondHash(0, self.act.cond), self.act.assign)

\* the loop of _Linear::hash and _LinearDown::hash: it adds the index i
RECURSIVE IndexHash(_, _, _)
IndexHash(hv, i, n) == IF i >= n THEN hv ELSE IndexHash(hv * 31 + i, i + 1, n)

Linear_hash(self) == (IndexHash(0, 0, Len(self.coef)) * 31 + self.inc) * 31 + self.tgt

LinearDown_hash(self) == (IndexHash(0, 0, Len(self.coef)) * 31 + self.inc) * 31 + self.tgt

hash(self) ==
  CASE self.type = "_Linear" -> Linear_hash(self)
    [] self.type = "_LinearDown" -> LinearDown_hash(self)
    [] self.type = "_ActionHom" -> ActionHom_hash(self)

\* ------------------------------------------------ StrongHom dispatch
IsStrong(hh) == hh.type \notin {"Identity", "Constant", "LeftConcat", "Compose"}

phiOne(hh) ==
  CASE hh.type = "_Assign" -> Assign_phiOne(hh)
    [] hh.type = "_AssignConst" -> AssignConst_phiOne(hh)
    [] hh.type = "_AssignDown" -> AssignDown_phiOne(hh)
    [] hh.type = "_AssignUp" -> AssignUp_phiOne(hh)
    [] hh.type = "_LineOne" -> LineOne_phiOne(hh)
    [] hh.type = "_LineOneConst" -> LineOneConst_phiOne(hh)
    [] hh.type = "_LineOneDown" -> LineOneDown_phiOne(hh)
    [] hh.type = "_LineOneUp" -> LineOneUp_phiOne(hh)
    [] hh.type = "_Linear" -> Linear_phiOne(hh)
    [] hh.type = "_LinearDown" -> LinearDown_phiOne(hh)
    [] hh.type = "_LinearUp" -> LinearUp_phiOne(hh)
    [] hh.type = "_ActionHom" -> ActionHom_phiOne(hh)

phi(hh, vr, vl, g) ==
  CASE hh.type = "_Assign" -> Assign_phi(hh, vr, vl)
    [] hh.type = "_AssignConst" -> AssignConst_phi(hh, vr, vl)
    [] hh.type = "_AssignDown" -> AssignDown_phi(hh, vr, vl)
    [] hh.type = "_AssignUp" -> AssignUp_phi(hh, vr, vl)
    [] hh.type = "_LineOne" -> LineOne_phi(hh, vr, vl)
    [] hh.type = "_LineOneConst" -> LineOneConst_phi(hh, vr, vl)
    [] hh.type = "_LineOneDown" -> LineOneDown_phi(hh, vr, vl)
    [] hh.type = "_LineOneUp" -> LineOneUp_phi(hh, vr, vl)
    [] hh.type = "_Linear" -> Linear_phi(hh, vr, vl)
    [] hh.type = "_LinearDown" -> LinearDown_phi(hh, vr, vl)
    [] hh.type = "_LinearUp" -> LinearUp_phi(hh, vr, vl)
    [] hh.type = "_ActionHom" -> ActionHom_phi(hh, vr, vl, g)

\* apply(h, d) as one function: the result the evaluation below ends with
RECURSIVE Apply(_, _)
Apply(hh, dd) ==
  CASE hh.type = "Identity" -> dd
    [] hh.type = "Constant" -> IF dd = DDDnull THEN DDDnull ELSE hh.ddd
    [] hh.type = "LeftConcat" -> GDDD(hh.var, hh.val, Apply(hh.h, dd))
    [] hh.type = "Compose" -> Apply(hh.left, Apply(hh.right, dd))
    [] OTHER ->
         IF dd.edges = <<>>
         THEN IF dd.term = "one" THEN phiOne(hh) ELSE dd
         ELSE Apply(phi(hh, Head(dd.edges)[1], Head(dd.edges)[2], 0),
                    [dd EXCEPT !.edges = Tail(dd.edges)])

\* ------------------------------------------------------------ inputs
RECURSIVE Ascending(_)
Ascending(S) ==
  IF S = {} THEN <<>>
  ELSE LET m == CHOOSE x \in S : \A y \in S : x <= y
       IN <<m>> \o Ascending(S \ {m})

\* the path that gives variable v the value f[v], variables in increasing order
PathOf(f) ==
  LET vs == Ascending(DOMAIN f) IN [i \in DOMAIN vs |-> <<vs[i], f[vs[i]]>>]

Paths == UNION {{PathOf(f) : f \in [S -> Vals]} : S \in SUBSET Vars}

\* the guarded assignments are applied to paths over the values 0 and 1
BitPaths == UNION {{PathOf(f) : f \in [S -> {0, 1}]} : S \in SUBSET Vars}


DDDofPath(p) == [edges |-> p, term |-> "one"]

AssignCalls ==
  [fn : {"assignHom", "lineOneHom"}, tgt : Vars, src : Vars, aug : Augs,
   inc : Incs, mul : Muls]

\* coefficient vectors with one entry per variable of the domain
ZeroCoefs == [i \in 1 .. NVars |-> 0]
UnitCoefs(v) == [i \in 1 .. NVars |-> IF i = v + 1 THEN 1 ELSE 0]
CondSet == [op : Comparators, value : {0, 1}, coefs : [1 .. NVars -> {-1, 0, 1}]]
SmallCondSet == [op : {"GEQ", "NEQ"}, value : {0}, coefs : [1 .. NVars -> {0, 1}]]
TermSet == [value : {0, 1}, coefs : [1 .. NVars -> {0, 1}]]

\* x - y >= 0, written as the descriptor (GEQ, 0, <<1, -1, 0, ...>>)
ScenarioCond ==
  condition_t("GEQ", 0, [i \in 1 .. NVars |-> IF i = 1 THEN 1 ELSE IF i = 2 THEN -1 ELSE 0])

\* every variable keeps its value but the last, which becomes x + y
ScenarioAssign ==
  [i \in 1 .. NVars |->
     IF i < NVars THEN weightedsum_t(0, UnitCoefs(i - 1))
     ELSE weightedsum_t(0, [j \in 1 .. NVars |-> IF j <= 2 THEN 1 ELSE 0])]

CondLists == {<<>>} \cup {<<c>> : c \in CondSet}
CondPairs == {<<c1, c2>> : c1 \in SmallCondSet, c2 \in SmallCondSet}
AssignLists ==
  {<<>>, ScenarioAssign} \cup {<<t>> : t \in TermSet}
    \cup {<<t1, t2>> : t1 \in TermSet, t2 \in TermSet}

ActionCalls ==
  {[fn |-> "actionHom", act |-> action_t(c, ScenarioAssign)] : c \in CondLists \cup CondPairs}
  \cup {[fn |-> "actionHom", act |-> action_t(<<>>, a)] : a \in AssignLists}

\* descriptors whose coefficient vectors are shorter or longer than the domain
RawCoefs == UNION {[1 .. n -> {0, 1}] : n \in 0 .. (NVars + 1)}
RawCalls ==
  {[fn |-> "actionHom", act |-> action_t(c, a)] :
     c \in {<<>>} \cup {<<condition_t("LEQ", 0, v)>> : v \in RawCoefs},
     a \in {<<>>} \cup {<<weightedsum_t(0, v)>> : v \in RawCoefs}}

\* the values a read outside a vector may yield
Garbage == {-1, 0, 1}

\* the homomorphism a call constructs
Construct(c) ==
  CASE c.fn = "assignHom" -> assignHom(c.tgt, c.src, c.aug, c.inc, c.mul)
    [] c.fn = "lineOneHom" -> lineOneHom(c.tgt, c.src, c.aug, c.inc, c.mul)
    [] c.fn = "actionHom" -> actionHom(c.act)
    [] c.fn = "linearAssignHom" -> linearAssignHom(c.tgt, c.coef, c.inc)

\* ------------------------------------------------- evaluation machine
\* apply(hom, diagram): h is applied to d; stack holds what is still to be
\* done with the result of that application, innermost first.
Start(c, p) ==
  /\ call = c
  /\ input = p
  /\ h = Construct(c)
  /\ d = DDDofPath(p)
  /\ stack = <<>>
  /\ pc = "eval"
  /\ ub = FALSE
  /\ res = "none"

Init == \E c \in AssignCalls, p \in Paths : Start(c, p)

\* Identity::eval
EvalIdentity ==
  /\ pc = "eval" /\ h.type = "Identity"
  /\ pc' = "ret"
  /\ UNCHANGED <<call, input, h, d, stack, ub, res>>

\* Constant::eval: null on null, else the constant
EvalConstant ==
  /\ pc = "eval" /\ h.type = "Constant"
  /\ d' = IF d = DDDnull THEN DDDnull ELSE h.ddd
  /\ pc' = "ret"
  /\ UNCHANGED <<call, input, h, stack, ub, res>>

\* LeftConcat::eval: (var -val-> one) ^ h(d)
EvalLeftConcat ==
  /\ pc = "eval" /\ h.type = "LeftConcat"
  /\ stack' = <<[k |-> "concat", var |-> h.var, val |-> h.val]>> \o stack
  /\ h' = h.h
  /\ UNCHANGED <<call, input, d, pc, ub, res>>

\* Compose::eval: left(right(d))
EvalCompose ==
  /\ pc = "eval" /\ h.type = "Compose"
  /\ stack' = <<[k |-> "hom", hom |-> h.left]>> \o stack
  /\ h' = h.right
  /\ UNCHANGED <<call, input, d, pc, ub, res>>

\* StrongHom::eval on a terminal: null and top are kept, one gives phiOne()
EvalTerminal ==
  /\ pc = "eval" /\ IsStrong(h) /\ d.edges = <<>>
  /\ d' = IF d.term = "one" THEN phiOne(h) ELSE d
  /\ pc' = "ret"
  /\ UNCHANGED <<call, input, h, stack, ub, res>>

\* StrongHom::eval on a node: phi(var, val) is applied to the edge's successor
EvalEdge ==
  /\ pc = "eval" /\ IsStrong(h) /\ d.edges # <<>>
  /\ ~OutOfBounds(h, Head(d.edges)[1])
  /\ h' = phi(h, Head(d.edges)[1], Head(d.edges)[2], 0)
  /\ d' = [d EXCEPT !.edges = Tail(d.edges)]
  /\ UNCHANGED <<call, input, stack, pc, ub, res>>

\* the result of the inner application is handed to the innermost pending step
Return ==
  /\ pc = "ret" /\ stack # <<>>
  /\ LET f == Head(stack)
     IN IF f.k = "concat"
        THEN /\ d' = GDDD(f.var, f.val, d)
             /\ UNCHANGED <<h, pc>>
        ELSE /\ h' = f.hom
             /\ pc' = "eval"
             /\ UNCHANGED d
  /\ stack' = Tail(stack)
  /\ UNCHANGED <<call, input, ub, res>>

Finish ==
  /\ pc = "ret" /\ stack = <<>>
  /\ pc' = "done"
  /\ UNCHANGED <<call, input, h, d, stack, ub, res>>

\* StrongHom::eval on a node when phi indexes a coefficient vector outside
\* its bounds: the process may stop, or go on with an unspecified value read
EvalEdgeUB ==
  /\ pc = "eval" /\ IsStrong(h) /\ d.edges # <<>>
  /\ OutOfBounds(h, Head(d.edges)[1])
  /\ ub' = TRUE
  /\ \/ /\ pc' = "crashed"
        /\ UNCHANGED <<h, d>>
     \/ /\ \E g \in Garbage : h' = phi(h, Head(d.edges)[1], Head(d.edges)[2], g)
        /\ d' = [d EXCEPT !.edges = Tail(d.edges)]
        /\ UNCHANGED pc
  /\ UNCHANGED <<call, input, stack, res>>

Next ==
  \/ EvalIdentity
  \/ EvalLeftConcat
  \/ EvalCompose
  \/ EvalTerminal
  \/ EvalEdge
  \/ Return
  \/ Finish

Spec == Init /\ [][Next]_vars

\* linearAssignHom applied to paths, coefficient vectors of the domain's length
LinearCoefs == [1 .. NVars -> {-1, 0, 2}]
LinearIncs == {0, 10}
LinearCalls == [fn : {"linearAssignHom"}, tgt : Vars, coef : LinearCoefs, inc : LinearIncs]

InitLinear == \E c \in LinearCalls, p \in Paths : Start(c, p)

SpecLinear == InitLinear /\ [][Next]_vars

\* ---------------------------------------------------- comparisons
\* the instances that are compared with one another, class by class
EqIncs == {0, 10}
EqMuls == {1, 2}
EqTerms == [value : {0, 1}, coefs : {ZeroCoefs, UnitCoefs(0)}]
EqAssignLists ==
  {<<>>} \cup {<<t>> : t \in EqTerms} \cup {<<t1, t2>> : t1 \in EqTerms, t2 \in EqTerms}
EqCondLists ==
  {<<>>, <<ScenarioCond>>, <<condition_t("EQ", 1, ZeroCoefs)>>,
   <<ScenarioCond, condition_t("EQ", 1, ZeroCoefs)>>}

EqInstances ==
  {Assign(t, s, a, i, m) : t \in Vars, s \in Vars, a \in Augs, i \in EqIncs, m \in EqMuls}
  \cup {LineOne(t, s, a, i, m) : t \in Vars, s \in Vars, a \in Augs, i \in EqIncs, m \in EqMuls}
  \cup {AssignConst(v, i, a) : v \in Vars, i \in EqIncs, a \in Augs}
  \cup {LineOneConst(v, i, a) : v \in Vars, i \in EqIncs, a \in Augs}
  \cup {AssignUp(v, x) : v \in Vars, x \in Vals}
  \cup {LineOneUp(v, x) : v \in Vars, x \in Vals}
  \cup {AssignDown(t, s, i, 2) : t \in Vars, s \in Vars, i \in EqIncs}
  \cup {LineOneDown(t, s, i, 2) : t \in Vars, s \in Vars, i \in EqIncs}
  \cup {Linear(t, c, i) : t \in Vars, c \in {ZeroCoefs, UnitCoefs(0)}, i \in EqIncs}
  \cup {LinearDown(t, c, i) : t \in Vars, c \in {ZeroCoefs, UnitCoefs(0)}, i \in EqIncs}
  \cup {LinearUp(v, x) : v \in Vars, x \in Vals}
  \cup {ActionHom(action_t(c, a)) : c \in EqCondLists, a \in EqAssignLists}

InitEq ==
  \E b \in EqInstances, a \in EqInstances :
    /\ a.type = b.type
    /\ call = [fn |-> "operator==", a |-> a, b |-> b]
    /\ input = <<>>
    /\ h = a
    /\ d = DDDone
    /\ stack = <<>>
    /\ pc = "cmp"
    /\ ub = FALSE
    /\ res = "none"

\* a == b, every read inside its vector
Compare ==
  /\ pc = "cmp"
  /\ ~(h.type = "_ActionHom" /\ ActionHom_eq_reads_past(call.a, call.b))
  /\ res' = IF eq(call.a, call.b) THEN "true" ELSE "false"
  /\ pc' = "compared"
  /\ UNCHANGED <<call, input, h, d, stack, ub>>

\* a == b reads a term past the end of b's terms: the comparison of the
\* unspecified term may give either answer, or the process stops
CompareUB ==
  /\ pc = "cmp"
  /\ h.type = "_ActionHom" /\ ActionHom_eq_reads_past(call.a, call.b)
  /\ ub' = TRUE
  /\ \/ res' \in {"true", "false"} /\ pc' = "compared"
     \/ res' = "none" /\ pc' = "crashed"
  /\ UNCHANGED <<call, input, h, d, stack>>

NextEq ==
  \/ Compare
  \/ CompareUB

SpecEq == InitEq /\ [][NextEq]_vars

\* guarded assignments with well-formed descriptors
InitAction == \E c \in ActionCalls, p \in BitPaths : Start(c, p)

NextAction ==
  \/ EvalConstant
  \/ EvalTerminal
  \/ EvalEdge
  \/ Finish

SpecAction == InitAction /\ [][NextAction]_vars

\* every homomorphism of the repository, under the scheduling of the code:
\* evaluation is one synchronous recursion, a call that has a next step takes it
LiveCalls ==
  [fn : {"assignHom", "lineOneHom"}, tgt : Vars, src : Vars, aug : Augs,
   inc : {10}, mul : {0, 2}]
  \cup [fn : {"linearAssignHom"}, tgt : Vars, coef : [1 .. NVars -> {0, 2}], inc : {10}]
  \cup {[fn |-> "actionHom", act |-> action_t(c, ScenarioAssign)] :
          c \in {<<>>} \cup {<<c1>> : c1 \in SmallCondSet}
                 \cup {<<ScenarioCond, c2>> : c2 \in SmallCondSet}}
  \cup {[fn |-> "actionHom", act |-> action_t(<<>>, <<t>>)] : t \in TermSet}

InitLive == \E c \in LiveCalls, p \in BitPaths : Start(c, p)

NextLive ==
  \/ EvalIdentity
  \/ EvalConstant
  \/ EvalLeftConcat
  \/ EvalCompose
  \/ EvalTerminal
  \/ EvalEdge
  \/ Return
  \/ Finish

SpecLive == InitLive /\ [][NextLive]_vars /\ WF_vars(NextLive)

\* ------------------------------------------------------------ hashes
\* the instances with a coefficient vector that are hashed, two at a time
HashCoefs == [1 .. NVars -> {0, 1, 2}]
HashInstances ==
  {Linear(t, c, i) : t \in {0, 1}, c \in HashCoefs, i \in EqIncs}
  \cup {LinearDown(t, c, i) : t \in {0, 1}, c \in HashCoefs, i \in EqIncs}
  \cup {ActionHom(action_t(<<condition_t(op, 1, c)>>, <<>>)) :
          op \in {"EQ", "GEQ"}, c \in HashCoefs}
  \cup {ActionHom(action_t(<<>>, <<weightedsum_t(v, c)>>)) : v \in {0, 1}, c \in HashCoefs}

InitHash ==
  \E a \in HashInstances, b \in HashInstances :
    /\ a.type = b.type
    /\ call = [fn |-> "hash", a |-> a, b |-> b]
    /\ input = <<>>
    /\ h = a
    /\ d = DDDone
    /\ stack = <<>>
    /\ pc = "hash"
    /\ ub = FALSE
    /\ res = "none"

\* a.hash() and b.hash()
Hash ==
  /\ pc = "hash"
  /\ res' = [a |-> hash(call.a), b |-> hash(call.b)]
  /\ pc' = "hashed"
  /\ UNCHANGED <<call, input, h, d, stack, ub>>

NextHash == Hash

SpecHash == InitHash /\ [][NextHash]_vars

\* guarded assignments with descriptors of any vector length
InitRaw == \E c \in RawCalls, p \in BitPaths : Start(c, p)

NextRaw ==
  \/ EvalConstant
  \/ EvalTerminal
  \/ EvalEdge
  \/ EvalEdgeUB
  \/ Finish

SpecRaw == InitRaw /\ [][NextRaw]_vars

\* ------------------------------------------------ reading a path off
Occurrences(p, v) == {i \in DOMAIN p : p[i][1] = v}
HasVar(p, v) == Occurrences(p, v) # {}
\* the value of variable v on a path that has exactly one edge of v
ValueAt(p, v) == p[CHOOSE i \in DOMAIN p : p[i][1] = v][2]
HasOne(p, v) == Cardinality(Occurrences(p, v)) = 1

Done == pc = "done"

\* C1: with augment = false, on every path that contains the target and the
\* source, the result is an accepting path whose target value is
\* mul * source_value + inc, whichever of the two variables comes first.
C1_OverwriteIsLinear ==
  (Done /\ call.aug = 0 /\ HasVar(input, call.tgt) /\ HasVar(input, call.src))
    => /\ d.term = "one"
       /\ HasOne(d.edges, call.tgt)
       /\ ValueAt(d.edges, call.tgt) = call.mul * ValueAt(input, call.src) + call.inc

\* the target is first, one variable lies between it and the source, and the
\* scenario's parameters inc = 10, mul = 2 give 12 for a source value 1
C1_Witness ==
  /\ Done /\ call.aug = 0 /\ call.tgt = 0 /\ call.src = 2
  /\ call.inc = 10 /\ call.mul = 2
  /\ Len(input) = 3 /\ ValueAt(input, 2) = 1 /\ ValueAt(input, 0) = 0
  /\ d.term = "one" /\ ValueAt(d.edges, 0) = 12

\* C2: with augment = true and target # source, on every path that contains
\* both, the resulting target value is
\* old_target_value + mul * source_value + inc, in both variable orders.
C2_AugmentAddsLinear ==
  (Done /\ call.aug = 1 /\ call.tgt # call.src
        /\ HasVar(input, call.tgt) /\ HasVar(input, call.src))
    => /\ d.term = "one"
       /\ HasOne(d.edges, call.tgt)
       /\ ValueAt(d.edges, call.tgt) =
            ValueAt(input, call.tgt) + call.mul * ValueAt(input, call.src) + call.inc

\* the target precedes the source (Descend state) and every term is nonzero
C2_Witness ==
  /\ Done /\ call.aug = 1 /\ call.tgt = 0 /\ call.src = 2
  /\ call.inc = 10 /\ call.mul = 2
  /\ Len(input) = 3 /\ ValueAt(input, 0) = 1 /\ ValueAt(input, 2) = 1
  /\ d.term = "one" /\ ValueAt(d.edges, 0) = 13

\* C6: mul = 0, inc = 0, augment = true constructs the identity and leaves
\* every path unchanged; mul = 0, inc = 0, augment = false does not construct
\* the identity and writes 0 to the target.
C6_DegenerateIdentity ==
  (Done /\ call.mul = 0 /\ call.inc = 0)
    => /\ call.aug = 1 => (Construct(call) = GHomId /\ d = DDDofPath(input))
       /\ call.aug = 0 =>
            /\ Construct(call) # GHomId
            /\ HasVar(input, call.tgt) =>
                 (HasOne(d.edges, call.tgt) /\ ValueAt(d.edges, call.tgt) = 0)

C6_Witness ==
  /\ Done /\ call.mul = 0 /\ call.inc = 0 /\ call.aug = 1
  /\ Len(input) = NVars /\ ValueAt(input, call.tgt) = 1
  /\ d = DDDofPath(input)

\* the states of the linear-assignment machine left unresolved at the terminal
EntryUnresolved ==
  call.mul # 0 /\ ~HasVar(input, call.tgt) /\ ~HasVar(input, call.src)
ConstantUnresolved ==
  call.mul # 0 /\ HasVar(input, call.src) /\ ~HasVar(input, call.tgt)
DescendUnresolved ==
  call.mul # 0 /\ HasVar(input, call.tgt) /\ ~HasVar(input, call.src)

\* C8 as stated: a path that ends with the state unresolved gives the
\* infeasible sentinel.
C8_Original ==
  (Done /\ (EntryUnresolved \/ ConstantUnresolved \/ DescendUnresolved))
    => d = DDDnull

\* C8: at the terminal the Entry state that met neither variable and the
\* Constant state that never met the target give the accept sentinel, so the
\* path comes back unchanged and accepting; the Descend state that never met
\* the source ends in the top sentinel, neither accept nor infeasible.
C8_UnresolvedTerminal ==
  Done => /\ (EntryUnresolved \/ ConstantUnresolved) => d = DDDofPath(input)
          /\ DescendUnresolved => d.term = "top"

C8_Witness ==
  /\ Done /\ DescendUnresolved /\ Len(input) = 2 /\ input[1][1] = call.tgt
  /\ d.term = "top"

\* ------------------------------------------------ guarded assignment
\* the path gives a value to every variable of the domain
IsFull(p) == Len(p) = NVars

\* sum of coefs[v] * val[v] over the edges of a path
RECURSIVE SumOver(_, _)
SumOver(coefs, p) ==
  IF p = <<>> THEN 0
  ELSE coefs[Head(p)[1] + 1] * Head(p)[2] + SumOver(coefs, Tail(p))

\* lhs op rhs
Holds(op, lhs, rhs) ==
  CASE op = "EQ" -> lhs = rhs
    [] op = "NEQ" -> lhs # rhs
    [] op = "LT" -> lhs < rhs
    [] op = "GT" -> lhs > rhs
    [] op = "LEQ" -> lhs <= rhs
    [] op = "GEQ" -> lhs >= rhs

\* C3 as stated: a full path is kept iff every condition satisfies
\* sum(coef[v] * val[v]) comparator threshold on the path's values.
C3_Original ==
  (Done /\ IsFull(input))
    => (d # DDDnull <=>
          \A i \in DOMAIN call.act.cond :
            Holds(call.act.cond[i].op,
                    SumOver(call.act.cond[i].coefs, input), call.act.cond[i].value))

\* C3: a full path is kept iff every condition (comparator, threshold, coefs)
\* satisfies 0 comparator threshold + sum(coef[v] * val[v]) on the path's
\* original values, and is pruned to the infeasible result otherwise; so the
\* descriptor (GEQ, 0, x - y) keeps exactly the paths with x <= y.
C3_KeptIffConditionsHold ==
  (Done /\ IsFull(input))
    => (d # DDDnull <=>
          \A i \in DOMAIN call.act.cond :
            Holds(call.act.cond[i].op, 0,
                    call.act.cond[i].value + SumOver(call.act.cond[i].coefs, input)))

\* the scenario's descriptor on x = 0, y = 1: kept, with z = x + y = 1
C3_Witness ==
  /\ Done /\ IsFull(input)
  /\ call.act.cond = <<ScenarioCond>> /\ call.act.assign = ScenarioAssign
  /\ ValueAt(input, 0) = 0 /\ ValueAt(input, 1) = 1
  /\ d.term = "one" /\ ValueAt(d.edges, NVars - 1) = 1

\* C4: a guarded assignment whose single condition has all-zero coefficients
\* and is false gives the infeasible result on every path, the empty path
\* included.
C4_Original ==
  (/\ Done
   /\ Len(call.act.cond) = 1
   /\ \A j \in DOMAIN call.act.cond[1].coefs : call.act.cond[1].coefs[j] = 0
   /\ ~Holds(call.act.cond[1].op, 0, call.act.cond[1].value))
    => d = DDDnull

\* C10: a path that survives a guarded assignment with n terms comes out as
\* exactly n edges, of the variables 0 .. n-1 in increasing order, edge i
\* carrying assign[i].value + sum(assign[i].coefs[v] * val[v]) over the
\* path's original values.
C10_OutputIsTermValues ==
  (Done /\ d # DDDnull)
    => /\ d.term = "one"
       /\ Len(d.edges) = Len(call.act.assign)
       /\ \A i \in DOMAIN call.act.assign :
            d.edges[i] = <<i - 1, call.act.assign[i].value
                                    + SumOver(call.act.assign[i].coefs, input)>>

\* two terms that read each other's variable: x := y + 0, y := x + 1
C10_Witness ==
  /\ Done /\ IsFull(input)
  /\ call.act.assign = <<weightedsum_t(0, UnitCoefs(1)), weightedsum_t(1, UnitCoefs(0))>>
  /\ ValueAt(input, 0) = 1 /\ ValueAt(input, 1) = 0
  /\ d = [edges |-> <<(<<0, 0>>), (<<1, 2>>)>>, term |-> "one"]

\* every coefficient vector of the descriptor has one entry per variable
WellFormed(act) ==
  /\ \A i \in DOMAIN act.cond : Len(act.cond[i].coefs) = NVars
  /\ \A i \in DOMAIN act.assign : Len(act.assign[i].coefs) = NVars

\* C9: a descriptor with a coefficient vector whose length is not the number
\* of variables is rejected at construction (no instance is ever applied),
\* and no step indexes a coefficient vector outside its bounds.
C9_Original ==
  /\ ~WellFormed(call.act) => pc = "InvalidArgument"
  /\ ~ub

\* C7: two instances of one variant built from identical parameters compare
\* equal, and two built from differing parameters never do, in either
\* argument order, also when two descriptors differ only in the number or
\* the content of their assignment terms.  (Equal parameters give equal
\* hashes by the hash being a function of the parameters.)
C7_Original ==
  pc = "compared" => (res = "true" <=> call.a = call.b)

\* ------------------------------------------- mul = 0 against actionHom
\* the descriptor with no condition and the single term (inc, all-zero coefs)
ConstantAction(c) == action_t(<<>>, <<weightedsum_t(c.inc, ZeroCoefs)>>)

\* the descriptor with no condition and one term per variable: every variable
\* keeps its value but the target, whose term is inc (plus the target when
\* augmenting)
ConstantActionFull(c) ==
  action_t(<<>>,
    [i \in 1 .. NVars |->
       IF i - 1 # c.tgt THEN weightedsum_t(0, UnitCoefs(i - 1))
       ELSE IF c.aug # 0 THEN weightedsum_t(c.inc, UnitCoefs(c.tgt))
       ELSE weightedsum_t(c.inc, ZeroCoefs)])

\* C5 as stated: with mul = 0 the result is that of actionHom with no
\* condition and a single all-zero-coefficient term of value inc.
C5_Original ==
  (Done /\ call.mul = 0)
    => d = Apply(actionHom(ConstantAction(call)), DDDofPath(input))

\* C5: with mul = 0, on every path that gives a value to every variable of the
\* domain, the result is that of actionHom with no condition and one term per
\* variable: value 0 and coefficient 1 at the variable itself for every
\* variable but the target; for the target, value inc with all-zero
\* coefficients when augment is false and with coefficient 1 at the target
\* when augment is true.
C5_ConstantAsAction ==
  (Done /\ call.mul = 0 /\ IsFull(input))
    => d = Apply(actionHom(ConstantActionFull(call)), DDDofPath(input))

C5_Witness ==
  /\ Done /\ call.mul = 0 /\ call.aug = 1 /\ call.inc = 10 /\ call.tgt = 1
  /\ call.fn = "lineOneHom"
  /\ IsFull(input) /\ ValueAt(input, 1) = 1
  /\ d.term = "one" /\ ValueAt(d.edges, 1) = 11

\* the evaluation ends with the value of Apply
ApplyAgrees == Done => d = Apply(Construct(call), DDDofPath(input))

\* -------------------------------------------- frame of the assignment
\* the edges of a path before the edge of variable v
Before(p, v) == SubSeq(p, 1, (CHOOSE i \in DOMAIN p : p[i][1] = v) - 1)

\* the same variables in the same order, and the same value for every
\* variable but v
SameButAt(p, q, v) ==
  /\ Len(p) = Len(q)
  /\ \A i \in DOMAIN p :
       /\ p[i][1] = q[i][1]
       /\ p[i][1] # v => p[i][2] = q[i][2]

\* C11 as stated: on every path the assignment changes at most the value of
\* the target edge; no edge is added or removed and the order is kept.
C11_Original == Done => SameButAt(input, d.edges, call.tgt)

\* C11: on every path but those that have the target and not the source (with
\* mul # 0), the result is an accepting path with the same variables in the
\* same order and the same value for every variable but the target; on the
\* excepted paths the Descend state reaches the terminal and the result keeps
\* only the edges before the target, closed by the top sentinel.
C11_FrameOfAssign ==
  Done => /\ ~DescendUnresolved =>
               (d.term = "one" /\ SameButAt(input, d.edges, call.tgt))
          /\ DescendUnresolved =>
               (d.term = "top" /\ d.edges = Before(input, call.tgt))

\* the target is first and two other variables follow it, the source last:
\* the target edge is put back on top of the edge between them
C11_Witness ==
  /\ Done /\ call.mul = 2 /\ call.tgt = 0 /\ call.src = NVars - 1
  /\ IsFull(input) /\ ValueAt(input, 1) = 1 /\ ValueAt(input, NVars - 1) = 1
  /\ d.term = "one" /\ d.edges[1][1] = 0 /\ d.edges[2] = <<1, 1>>
  /\ d.edges # input

\* C12: with target = source and mul # 0, the edge of that variable, of value
\* v, becomes mul*v + inc (augment false) or v + mul*v + inc (augment true),
\* and every other edge of the path, before and after it, is left as it is.
C12_SelfAssign ==
  (Done /\ call.tgt = call.src /\ call.mul # 0 /\ HasVar(input, call.tgt))
    => LET k == CHOOSE i \in DOMAIN input : input[i][1] = call.tgt
           v == input[k][2]
           w == IF call.aug # 0 THEN v + call.mul * v + call.inc
                ELSE call.mul * v + call.inc
       IN d = DDDofPath([input EXCEPT ![k] = <<call.tgt, w>>])

C12_Witness ==
  /\ Done /\ call.tgt = 0 /\ call.src = 0 /\ call.aug = 1
  /\ call.mul = 2 /\ call.inc = 10 /\ call.fn = "lineOneHom"
  /\ IsFull(input) /\ ValueAt(input, 0) = 1 /\ ValueAt(input, 1) = 1
  /\ d.term = "one" /\ ValueAt(d.edges, 0) = 13 /\ Tail(d.edges) = Tail(input)

\* ------------------------------------- one step of a guarded assignment
\* the machine is about to apply an _ActionHom to an edge
AtActionEdge == pc = "eval" /\ h.type = "_ActionHom" /\ d.edges # <<>>

\* condition c after the edge v -val->: its coefficient for v is zero and its
\* threshold has moved by sign * coef[v] * val
Moved(c, v, val, sign) ==
  [c EXCEPT !.value = c.value + sign * c.coefs[v + 1] * val,
            !.coefs = [j \in DOMAIN c.coefs |-> IF j = v + 1 THEN 0 ELSE c.coefs[j]]]

Resolved(c) == \A j \in DOMAIN c.coefs : c.coefs[j] = 0

\* the step out of the current state, the thresholds moving by sign: it is
\* infeasible iff a condition resolved at this step is false, and else the
\* successor holds exactly the conditions not resolved, in order, moved
CondStepAs(sign) ==
  AtActionEdge =>
    LET v == Head(d.edges)[1]
        val == Head(d.edges)[2]
        cs == [i \in DOMAIN h.act.cond |-> Moved(h.act.cond[i], v, val, sign)]
        Open(c) == ~Resolved(c)
        failed == \E i \in DOMAIN cs :
                    Resolved(cs[i]) /\ ~Holds(cs[i].op, 0, cs[i].value)
    IN /\ (h' = GHomConst(DDDnull)) <=> failed
       /\ ~failed => (h'.type = "_ActionHom" /\ h'.act.cond = SelectSeq(cs, Open))

\* C13 as stated: the thresholds are updated by threshold -= coef[v]*val.
C13_Original == [][CondStepAs(-1)]_vars

\* C13: in one step on the edge (v, val) a condition is tested exactly when
\* the step leaves it with all coefficients zero; the step is infeasible iff
\* one of the conditions resolved at this step is false; else the successor's
\* conditions are exactly those not resolved, in their order, each with
\* coef[v] = 0 and threshold += coef[v]*val, so that a condition found true
\* is not in the successor and is never tested again.
C13_ConditionStep == [][CondStepAs(1)]_vars

\* of two conditions one was found true at the first edge and dropped, the
\* other is still waiting for a variable
C13_Witness ==
  /\ AtActionEdge /\ Len(call.act.cond) = 2 /\ Len(h.act.cond) = 1
  /\ Len(d.edges) + 1 = Len(input)
  /\ Resolved(Moved(call.act.cond[1], input[1][1], input[1][2], 1))
  /\ h.act.cond[1] = Moved(call.act.cond[2], input[1][1], input[1][2], 1)
  /\ h.act.cond[1].value # call.act.cond[2].value

\* some assignment term of the call has a nonzero coefficient for a variable
\* the path does not have
ResidualCoef ==
  \E i \in DOMAIN call.act.assign : \E v \in Vars :
    call.act.assign[i].coefs[v + 1] # 0 /\ ~HasVar(input, v)

\* C14 as stated: a guarded assignment that reaches the terminal while a term
\* still has a nonzero coefficient does not produce an accepting path.
C14_Original == (Done /\ ResidualCoef) => d.term # "one"

\* C15: a step that is not pruned gives a successor with the same number of
\* assignment terms in the same order, each with accumulated += coef[v]*val
\* and coef[v] = 0 for the visited variable v, the other coefficients as they
\* were; the descriptor the evaluation was started from is not touched.
C15_TermsPreserved ==
  [][(AtActionEdge /\ h' # GHomConst(DDDnull)) =>
       LET v == Head(d.edges)[1]
           val == Head(d.edges)[2]
           old == h.act.assign
       IN /\ h'.type = "_ActionHom"
          /\ Len(h'.act.assign) = Len(old)
          /\ \A i \in DOMAIN old :
               /\ h'.act.assign[i].value = old[i].value + old[i].coefs[v + 1] * val
               /\ \A j \in DOMAIN old[i].coefs :
                    h'.act.assign[i].coefs[j] = IF j = v + 1 THEN 0 ELSE old[i].coefs[j]
          /\ call' = call]_vars

\* after one step some term has taken a value and still waits for a variable
C15_Witness ==
  /\ AtActionEdge /\ Len(d.edges) + 1 = Len(input)
  /\ Len(h.act.assign) >= 2 /\ Len(h.act.assign) = Len(call.act.assign)
  /\ \E i \in DOMAIN h.act.assign :
       /\ h.act.assign[i].value # call.act.assign[i].value
       /\ h.act.assign[i].coefs[input[1][1] + 1] = 0
       /\ call.act.assign[i].coefs[input[1][1] + 1] # 0
       /\ ~Resolved(h.act.assign[i])

\* --------------------------------------------- equality and the cache
\* a and b give the same result at the terminal and on every edge
Interchangeable(a, b) ==
  /\ phiOne(a) = phiOne(b)
  /\ \A v \in Vars : \A x \in Vals : phi(a, v, x, 0) = phi(b, v, x, 0)

\* C16 as stated: two instances of one variant that compare equal under
\* operator== have the same phiOne and the same phi on every edge.
C16_Original ==
  (pc = "compared" /\ res = "true") => Interchangeable(call.a, call.b)

\* -------------------------------------------------------------- hashes
\* the coefficient vectors of an instance, in order
CoefsOf(x) ==
  IF x.type = "_ActionHom"
  THEN [i \in DOMAIN x.act.cond |-> x.act.cond[i].coefs]
         \o [i \in DOMAIN x.act.assign |-> x.act.assign[i].coefs]
  ELSE <<x.coef>>

\* x with every coefficient set to zero
NoCoefs(x) ==
  IF x.type = "_ActionHom"
  THEN [x EXCEPT !.act.cond = [i \in DOMAIN x.act.cond |->
                                 [x.act.cond[i] EXCEPT !.coefs = ZeroCoefs]],
                 !.act.assign = [i \in DOMAIN x.act.assign |->
                                   [x.act.assign[i] EXCEPT !.coefs = ZeroCoefs]]]
  ELSE [x EXCEPT !.coef = ZeroCoefs]

\* a and b differ in coefficient values (or in their order) and nothing else
DifferOnlyInCoefs(a, b) == NoCoefs(a) = NoCoefs(b) /\ CoefsOf(a) # CoefsOf(b)

\* C17 as stated: the hash of a variant with a coefficient vector combines the
\* coefficient values in order and is a function of the parameters operator==
\* compares. Coefficients here are below the multiplier 31 and no value wraps,
\* so a hash that combines them in order tells apart any two instances that
\* differ only in coefficients; and equal instances have equal hashes.
C17_Original ==
  pc = "hashed" =>
    /\ DifferOnlyInCoefs(call.a, call.b) => res.a # res.b
    /\ eq(call.a, call.b) => res.a = res.b

\* --------------------------------------------------- linearAssignHom
\* C19: linearAssignHom(tgt, coef, inc) on a path that has the target gives
\* the same path with the target value replaced by inc + the sum of
\* coef[v] * val[v] over every variable v of the path (before the target, the
\* target itself, after it), every other value and the order unchanged; a
\* path that does not have the target is returned unchanged.
C19_LinearAssign ==
  (Done /\ call.fn = "linearAssignHom") =>
    IF HasVar(input, call.tgt)
    THEN LET k == CHOOSE i \in DOMAIN input : input[i][1] = call.tgt
         IN d = DDDofPath([input EXCEPT
                  ![k] = <<call.tgt, call.inc + SumOver(call.coef, input)>>])
    ELSE d = DDDofPath(input)

\* the target is in the middle of a full path; a variable before it, the
\* target itself and a variable after it all count in the new value
C19_Witness ==
  /\ Done /\ call.fn = "linearAssignHom" /\ call.tgt = 1 /\ call.inc = 10
  /\ IsFull(input) /\ \A i \in DOMAIN input : input[i][2] = 1
  /\ call.coef[1] = 2 /\ call.coef[2] = -1 /\ call.coef[NVars] = 2
  /\ d.term = "one" /\ Len(d.edges) = NVars
  /\ ValueAt(d.edges, 1) = 10 + SumOver(call.coef, input)
  /\ ValueAt(d.edges, 1) # 1

\* ---------------------------------------------------------- termination
\* C18: applying any homomorphism of the repository to a finite path ends:
\* the evaluation reaches its return with nothing left to do and a result
\* that closes in a terminal (accept, infeasible or top).
C18_Terminates ==
  <>(pc = "done" /\ stack = <<>> /\ d.term \in {"one", "null", "top"})

\* an evaluation that went through the Up/Down composition over an edge
\* between target and source has returned
C18_Witness ==
  /\ Done /\ call.fn = "lineOneHom" /\ call.mul = 2 /\ call.aug = 1
  /\ call.tgt = 0 /\ call.src = NVars - 1 /\ IsFull(input)
  /\ stack = <<>> /\ d.term = "one" /\ Len(d.edges) = Len(input)

====
